---- MODULE Spec2Model ----
(***************************************************************************)
(* A model of tide-openssl's TlsListener (src/src/tls_listener.rs): the    *)
(* listener's fields, bind() = configure() + connect() + storing the       *)
(* server, the accept() loop with its error arms, and the connection       *)
(* handler tasks spawned by handle_tls.                                    *)
(***************************************************************************)
EXTENDS Naturals, Sequences, FiniteSets, TLC

VARIABLES
    connection,    \* TlsListener.connection: "Addrs" | "Connected"
    config,        \* TlsListener.config: the TlsListenerConfig variant
    acceptor,      \* TlsListener.acceptor: 0 is None, n > 0 the n-th acceptor built
    server,        \* TlsListener.server: TRUE is Some(server)
    tcp_nodelay,   \* TlsListener.tcp_nodelay: "None" | "Some"
    tcp_ttl,       \* TlsListener.tcp_ttl: "None" | "Some"
    pc,            \* where the accept() future is: "idle" (not running),
                   \* "incoming" (awaiting incoming.next()), "sleep" (in task::sleep),
                   \* "cancelled" (dropped with the task that ran it)
    ret,           \* what the last accept() call returned ("none" before any return)
    bindRet,       \* what the last bind() call returned ("none" before any call)
    cfgRet,        \* what the last configure() call returned
    nBinds,        \* bind() calls made so far
    reads,         \* certificate/key files opened so far
    built,         \* acceptors built so far
    bindAttempts,  \* TcpListener::bind calls made so far
    nTransient,    \* accept results consumed: transient errors
    nOther,        \* accept results consumed: other errors
    nOk,           \* accept results consumed: Ok(stream)
    sleeps,        \* backoff sleeps completed
    slept,         \* milliseconds elapsed in the current backoff sleep
    nSpawned,      \* handler tasks spawned
    tasks          \* connection number -> the connection's handler task

vars == << connection, config, acceptor, server, tcp_nodelay, tcp_ttl, pc, ret,
           bindRet, cfgRet, nBinds, reads, built, bindAttempts, nTransient,
           nOther, nOk, sleeps, slept, nSpawned, tasks >>

----------------------------------------------------------------------------
(* Bounds of the model. *)

\* bind() calls explored
MaxBinds == 2
\* accept results consumed by the loop
MaxAccepts == 2
\* connections accepted (Ok results)
MaxConn == 2
\* requests the HTTP codec reads on one connection
MaxReq == 1
\* granularity of the clock, in milliseconds
TickMs == 250

\* Duration::from_millis(500)
BackoffDelayMs == 500

----------------------------------------------------------------------------
(* The values the fields and the environment's answers range over. *)

\* The TlsListenerConfig variants: Paths {cert, key} is the one configure()
\* matches; the others fall in its `_` arm.
ConfigKinds == {"Paths", "Acceptor", "Unconfigured"}

\* TcpConnection::Addrs(..) and TcpConnection::Connected(..)
ConnectionKinds == {"Addrs", "Connected"}

\* io::ErrorKind values an accept can fail with
ErrorKinds == {"ConnectionRefused", "ConnectionAborted", "ConnectionReset",
               "Other", "TimedOut"}

\* What building the acceptor from the files can meet: the context builder
\* failing, the key file unreadable or malformed, the certificate chain file
\* unreadable or malformed, or success.
FileOutcomes == {"Ok", "ctx_err", "bad_key", "bad_cert"}

\* What TcpListener::bind can answer
SockOutcomes == {"Ok", "AddrInUse"}

Conns == 1 .. MaxConn

\* A connection not accepted yet. A task's fields: pc, where the task is;
\* acceptor, the acceptor clone it was given; addrs, whether local_addr and
\* peer_addr were captured; handshake, what the TLS handshake gave;
\* dispatched, the requests passed to app.respond; scheme, what set_scheme
\* gave for the request being answered.
NoTask == [pc |-> "absent", acceptor |-> 0, addrs |-> FALSE, handshake |-> "none",
           dispatched |-> 0, scheme |-> "none"]

----------------------------------------------------------------------------
(* TlsListener::new *)

Init ==
    /\ connection \in ConnectionKinds
    /\ config \in ConfigKinds
    /\ acceptor = 0
    /\ server = FALSE
    /\ tcp_nodelay \in {"None", "Some"}
    /\ tcp_ttl \in {"None", "Some"}
    /\ pc = "idle"
    /\ ret = "none"
    /\ bindRet = "none"
    /\ cfgRet = "none"
    /\ nBinds = 0
    /\ reads = 0
    /\ built = 0
    /\ bindAttempts = 0
    /\ nTransient = 0
    /\ nOther = 0
    /\ nOk = 0
    /\ sleeps = 0
    /\ slept = 0
    /\ nSpawned = 0
    /\ tasks = [c \in Conns |-> NoTask]

----------------------------------------------------------------------------
(* TlsListener::configure, TlsListener::tcp, TlsListener::connect *)

\* configure(): with Paths, build a new acceptor from the key file and then
\* the certificate chain file and store it; with any other variant fail with
\* InvalidInput. cfg is self.config, acc self.acceptor, n the acceptors built
\* so far, file what the files turn out to be at this call.
configure(cfg, acc, n, file) ==
    IF cfg = "Paths"
    THEN CASE file = "ctx_err"  -> [res |-> "Err_Other", acceptor |-> acc, opened |-> 0, built |-> n]
           [] file = "bad_key"  -> [res |-> "Err_Other", acceptor |-> acc, opened |-> 1, built |-> n]
           [] file = "bad_cert" -> [res |-> "Err_Other", acceptor |-> acc, opened |-> 2, built |-> n]
           [] OTHER             -> [res |-> "Ok", acceptor |-> n + 1, opened |-> 2, built |-> n + 1]
    ELSE [res |-> "Err_InvalidInput", acceptor |-> acc, opened |-> 0, built |-> n]

\* tcp(): Some(listener) when Connected, None otherwise
tcp(conn) == IF conn = "Connected" THEN "Some" ELSE "None"

\* A connect() that binds again although the connection is Connected.
connect_rebind(conn, sock) ==
    IF sock = "Ok"
    THEN [res |-> "Ok", connection |-> "Connected", attempts |-> 1]
    ELSE [res |-> "Err_bind", connection |-> conn, attempts |-> 1]

\* A connect() that swallows the error of TcpListener::bind.
connect_swallow(conn, sock) ==
    IF conn = "Addrs"
    THEN IF sock = "Ok"
         THEN [res |-> "Ok", connection |-> "Connected", attempts |-> 1]
         ELSE [res |-> "Ok", connection |-> conn, attempts |-> 1]
    ELSE [res |-> "Ok", connection |-> conn, attempts |-> 0]

\* connect(): bind the addresses when still Addrs; nothing when Connected
connect(conn, sock) ==
    IF conn = "Addrs"
    THEN IF sock = "Ok"
         THEN [res |-> "Ok", connection |-> "Connected", attempts |-> 1]
         ELSE [res |-> "Err_bind", connection |-> conn, attempts |-> 1]
    ELSE [res |-> "Ok", connection |-> conn, attempts |-> 0]

----------------------------------------------------------------------------
(* Listener::bind *)

\* A bind() whose server is stored although connect() failed.
bind_server_early(srv, c, k) == IF c.res = "Ok" THEN TRUE ELSE srv

\* self.server after bind(): Some(server) once configure() and connect()
\* both returned Ok, unchanged when either `?` returned early.
bind_server(srv, c, k) == IF c.res = "Ok" /\ k.res = "Ok" THEN TRUE ELSE srv

\* What bind() returns
bind_result(c, k) ==
    IF c.res # "Ok" THEN "Err_configure"
    ELSE IF k.res # "Ok" THEN "Err_connect"
    ELSE "Ok"

\* bind(): configure().await?; connect().await?; self.server = Some(server).
\* It takes &mut self, so it runs only while no accept() future holds the
\* listener.
Bind ==
    /\ pc = "idle"
    /\ nBinds < MaxBinds
    /\ \E file \in FileOutcomes, sock \in SockOutcomes :
         LET c == configure(config, acceptor, built, file)
             k == IF c.res = "Ok" THEN connect(connection, sock)
                  ELSE [res |-> "skipped", connection |-> connection, attempts |-> 0]
         IN /\ acceptor' = c.acceptor
            /\ built' = c.built
            /\ reads' = reads + c.opened
            /\ cfgRet' = c.res
            /\ connection' = k.connection
            /\ bindAttempts' = bindAttempts + k.attempts
            /\ server' = bind_server(server, c, k)
            /\ bindRet' = bind_result(c, k)
    /\ nBinds' = nBinds + 1
    /\ UNCHANGED << config, tcp_nodelay, tcp_ttl, pc, ret, nTransient, nOther,
                    nOk, sleeps, slept, nSpawned, tasks >>

----------------------------------------------------------------------------
(* Listener::accept *)

\* is_transient_error
is_transient_error(e) ==
    e \in {"ConnectionRefused", "ConnectionAborted", "ConnectionReset"}

\* An accept() that does not ask for the bound socket first.
accept_entry_skip_listener(conn, acc, srv) ==
    IF acc = 0 THEN "Err_acceptor"
    ELSE IF ~srv THEN "Err_server"
    ELSE "loop"

\* An accept() that asks only for the bound socket.
accept_entry_listener_only(conn, acc, srv) ==
    IF tcp(conn) = "None" THEN "Err_listener" ELSE "loop"

\* The three ok_or_else(..)? before the loop: what accept() does on entry.
accept_entry(conn, acc, srv) ==
    IF tcp(conn) = "None" THEN "Err_listener"
    ELSE IF acc = 0 THEN "Err_acceptor"
    ELSE IF ~srv THEN "Err_server"
    ELSE "loop"

\* accept() is called: it returns an error at once or enters the loop.
\* `while let Some(stream) = incoming.next().await`: async-std's Incoming
\* never yields None, so the loop is left only by a `?` inside it.
Accept ==
    /\ pc = "idle"
    /\ LET e == accept_entry(connection, acceptor, server)
       IN IF e = "loop"
          THEN pc' = "incoming" /\ ret' = "none"
          ELSE pc' = "idle" /\ ret' = e
    /\ UNCHANGED << connection, config, acceptor, server, tcp_nodelay, tcp_ttl,
                    bindRet, cfgRet, nBinds, reads, built, bindAttempts,
                    nTransient, nOther, nOk, sleeps, slept,
                    nSpawned, tasks >>

\* An error arm that returns the error instead of sleeping.
err_arm_return(e) == IF is_transient_error(e) THEN "incoming" ELSE "idle"

\* An error arm that treats every error as transient.
err_arm_nosleep(e) == "incoming"

\* The two Err arms of the match: a transient error continues at once, any
\* other error goes to task::sleep(delay) first.
err_arm(e) == IF is_transient_error(e) THEN "incoming" ELSE "sleep"

\* incoming.next() yields Err(e).
AcceptErr ==
    /\ pc = "incoming"
    /\ nTransient + nOther + nOk < MaxAccepts
    /\ \E e \in ErrorKinds :
         /\ pc' = err_arm(e)
         /\ nTransient' = IF is_transient_error(e) THEN nTransient + 1 ELSE nTransient
         /\ nOther' = IF is_transient_error(e) THEN nOther ELSE nOther + 1
         /\ slept' = IF is_transient_error(e) THEN slept ELSE 0
    /\ UNCHANGED << connection, config, acceptor, server, tcp_nodelay, tcp_ttl,
                    ret, bindRet, cfgRet, nBinds, reads, built, bindAttempts,
                    nOk, sleeps, nSpawned, tasks >>

\* A sleep that ends at once.
sleep_done_early(ms) == TRUE

\* task::sleep(delay) is over once delay has elapsed.
sleep_done(ms) == ms >= BackoffDelayMs

\* Time passes during the backoff sleep.
Tick ==
    /\ pc = "sleep"
    /\ ~sleep_done(slept)
    /\ slept' = slept + TickMs
    /\ UNCHANGED << connection, config, acceptor, server, tcp_nodelay, tcp_ttl,
                    pc, ret, bindRet, cfgRet, nBinds, reads, built,
                    bindAttempts, nTransient, nOther, nOk, sleeps,
                    nSpawned, tasks >>

\* task::sleep(delay).await returns; `continue`.
Wake ==
    /\ pc = "sleep"
    /\ sleep_done(slept)
    /\ pc' = "incoming"
    /\ sleeps' = sleeps + 1
    /\ slept' = 0
    /\ UNCHANGED << connection, config, acceptor, server, tcp_nodelay, tcp_ttl,
                    ret, bindRet, cfgRet, nBinds, reads, built, bindAttempts,
                    nTransient, nOther, nOk, nSpawned, tasks >>

\* What a socket option call can answer, given whether the option is set
SockoptOutcomes(opt) == IF opt = "Some" THEN {"Ok", "Err"} ELSE {"Ok"}

\* The Ok(stream) arm up to handle_tls: set_nodelay(..)? and set_ttl(..)?
\* return their error from accept(); otherwise the handler is spawned.
ok_arm(nodelay, ttl, nd, tt) ==
    IF nodelay = "Some" /\ nd = "Err" THEN "Err_nodelay"
    ELSE IF ttl = "Some" /\ tt = "Err" THEN "Err_ttl"
    ELSE "spawn"

\* A handle_tls that runs the handshake itself before it returns.
handle_tls_inline(ts, c, acc) ==
    [ts EXCEPT ![c] = [NoTask EXCEPT !.pc = "h1", !.acceptor = acc,
                                     !.addrs = TRUE, !.handshake = "Ok"]]

\* handle_tls(app, stream, acceptor): task::spawn(async move {..}) and return;
\* the task starts with clones of the server and the acceptor and owns the
\* stream.
handle_tls(ts, c, acc) ==
    [ts EXCEPT ![c] = [NoTask EXCEPT !.pc = "start", !.acceptor = acc]]

\* incoming.next() yields Ok(stream).
AcceptOk ==
    /\ pc = "incoming"
    /\ nTransient + nOther + nOk < MaxAccepts
    /\ nOk < MaxConn
    /\ \E nd \in SockoptOutcomes(tcp_nodelay), tt \in SockoptOutcomes(tcp_ttl) :
         LET c == nOk + 1
             a == ok_arm(tcp_nodelay, tcp_ttl, nd, tt)
         IN IF a = "spawn"
            THEN /\ tasks' = handle_tls(tasks, c, acceptor)
                 /\ nSpawned' = nSpawned + 1
                 /\ pc' = "incoming"
                 /\ ret' = ret
            ELSE /\ tasks' = [tasks EXCEPT ![c].pc = "dropped"]
                 /\ nSpawned' = nSpawned
                 /\ pc' = "idle"
                 /\ ret' = a
    /\ nOk' = nOk + 1
    /\ UNCHANGED << connection, config, acceptor, server, tcp_nodelay, tcp_ttl,
                    bindRet, cfgRet, nBinds, reads, built, bindAttempts,
                    nTransient, nOther, sleeps, slept >>

\* A cancellation that aborts the handler tasks still running.
detached_tasks_aborted(ts) ==
    [c \in Conns |->
       IF ts[c].pc \in {"start", "handshake", "h1", "responding"}
       THEN [ts[c] EXCEPT !.pc = "aborted"]
       ELSE ts[c]]

\* The handler tasks when the accept() future goes away: handle_tls dropped
\* the JoinHandle of task::spawn, which detaches the task, so they stay as
\* they are.
detached_tasks(ts) == ts

\* The task that owns the listener and runs accept() is dropped or cancelled
\* while accept() is suspended at incoming.next().await or at
\* task::sleep(delay).await: the loop stops there and accept() returns
\* nothing to anyone. The tasks spawned by task::spawn are detached (their
\* JoinHandles were dropped in handle_tls) and own what they use.
Cancel ==
    /\ pc \in {"incoming", "sleep"}
    /\ pc' = "cancelled"
    /\ slept' = 0
    /\ tasks' = detached_tasks(tasks)
    /\ UNCHANGED << connection, config, acceptor, server, tcp_nodelay, tcp_ttl,
                    ret, bindRet, cfgRet, nBinds, reads, built, bindAttempts,
                    nTransient, nOther, nOk, sleeps, nSpawned >>

----------------------------------------------------------------------------
(* The connection handler: the task spawned by handle_tls *)

listener_vars == << connection, config, acceptor, server, tcp_nodelay, tcp_ttl,
                    pc, ret, bindRet, cfgRet, nBinds, reads, built,
                    bindAttempts, nTransient, nOther, nOk, sleeps, slept,
                    nSpawned >>

\* A task that goes to the handshake without capturing the addresses.
start_task_no_addrs(t, r) ==
    [t EXCEPT !.pc = IF r = "Ok" THEN "handshake" ELSE "ssl_error"]

\* The task's first poll, up to its first await: stream.local_addr().ok(),
\* stream.peer_addr().ok(), then Ssl::new(..).and_then(SslStream::new), whose
\* error is logged and ends the task.
start_task(t, r) ==
    [t EXCEPT !.pc = IF r = "Ok" THEN "handshake" ELSE "ssl_error",
              !.addrs = TRUE]

\* The spawned task starts to run.
HStart(c) ==
    /\ tasks[c].pc = "start"
    /\ \E r \in {"Ok", "Err"} :
         tasks' = [tasks EXCEPT ![c] = start_task(tasks[c], r)]
    /\ UNCHANGED listener_vars

\* A handler that goes on to the HTTP codec whatever the handshake gave.
handshake_arm_ignore(r) == "h1"

\* match ssl_stream.accept().await: Ok goes on to async_h1::accept, Err is
\* logged and the task ends.
handshake_arm(r) == IF r = "Ok" THEN "h1" ELSE "tls_error"

\* The TLS handshake completes, with success or with an error.
HHandshake(c) ==
    /\ tasks[c].pc = "handshake"
    /\ \E r \in {"Ok", "Err"} :
         tasks' = [tasks EXCEPT ![c].pc = handshake_arm(r), ![c].handshake = r]
    /\ UNCHANGED listener_vars

\* A closure that gives up the request when set_scheme fails.
closure_stop_on_scheme(t, sch) ==
    IF sch = "Ok"
    THEN [t EXCEPT !.pc = "responding", !.dispatched = @ + 1, !.scheme = sch]
    ELSE [t EXCEPT !.pc = "h1_error", !.scheme = sch]

\* The closure given to async_h1::accept, for one request: set_scheme("https")
\* (an error is only logged), set_local_addr, set_peer_addr, then
\* app.respond(req).
closure(t, sch) ==
    [t EXCEPT !.pc = "responding", !.dispatched = @ + 1, !.scheme = sch]

\* async_h1::accept has read a request and calls the closure.
HRequest(c) ==
    /\ tasks[c].pc = "h1"
    /\ tasks[c].dispatched < MaxReq
    /\ \E sch \in {"Ok", "Err"} :
         tasks' = [tasks EXCEPT ![c] = closure(tasks[c], sch)]
    /\ UNCHANGED listener_vars

\* async_h1::accept writes the response: the connection is kept alive, or
\* closed, or the write fails and fut.await is Err (logged).
HResponse(c) ==
    /\ tasks[c].pc = "responding"
    /\ \E r \in {"keep_alive", "close", "Err"} :
         tasks' = [tasks EXCEPT
                     ![c].pc = CASE r = "keep_alive" -> "h1"
                                 [] r = "close" -> "closed"
                                 [] OTHER -> "h1_error",
                     ![c].scheme = "none"]
    /\ UNCHANGED listener_vars

\* async_h1::accept waiting for a request: the peer closes (fut.await is Ok)
\* or the stream is malformed (fut.await is Err, logged).
HCodecEnd(c) ==
    /\ tasks[c].pc = "h1"
    /\ \E r \in {"eof", "Err"} :
         tasks' = [tasks EXCEPT
                     ![c].pc = IF r = "eof" THEN "closed" ELSE "h1_error"]
    /\ UNCHANGED listener_vars

----------------------------------------------------------------------------

Next ==
    \/ Bind
    \/ Accept
    \/ AcceptErr
    \/ Tick
    \/ Wake
    \/ AcceptOk
    \/ Cancel
    \/ \E c \in Conns : HStart(c)
    \/ \E c \in Conns : HHandshake(c)
    \/ \E c \in Conns : HRequest(c)
    \/ \E c \in Conns : HResponse(c)
    \/ \E c \in Conns : HCodecEnd(c)

Spec == Init /\ [][Next]_vars

----------------------------------------------------------------------------
(* The claims *)

\* The accept results consumed so far
Consumed == nTransient + nOther + nOk

\* The errors accept() returns from inside its loop
LoopErrs == {"Err_nodelay", "Err_ttl"}

\* C1: once accept() is in its loop, no accept error ends it: in a step that
\* consumes an errored accept result, transient or not, accept() does not
\* return (it stays in the loop and its return value is untouched), and from
\* the backoff sleep the loop can always move on towards the next attempt.
C1_AcceptErrorsNeverTerminate ==
    /\ [][(nTransient' # nTransient \/ nOther' # nOther)
            => (pc' \in {"incoming", "sleep"} /\ ret' = ret)]_vars
    /\ [](pc = "sleep" => ENABLED (Tick \/ Wake))

\* C1 witness: a transient and a non-transient error were both consumed and
\* the loop is again waiting for a connection.
C1_Witness == nTransient >= 1 /\ nOther >= 1 /\ pc = "incoming"

\* C2: no error arising in an iteration of the accept loop, a failing
\* set_nodelay or set_ttl included, is ever returned by accept().
C2_LoopErrorsNeverReturned == ret \notin LoopErrs

\* C3: when the accept results are transient errors followed by one success
\* (no other error, one Ok), exactly one handler task was spawned and no
\* backoff sleep was made.
C3_TransientsThenOneSuccess ==
    (nOther = 0 /\ nOk = 1) => (nSpawned = 1 /\ sleeps = 0)

\* C4: a non-transient accept error sends the loop into the backoff sleep;
\* while it sleeps no accept result is consumed and accept() does not return;
\* and the loop leaves the sleep only for the next accept attempt, after the
\* full delay of 500 ms, with one more sleep completed (or not at all, when
\* the task running accept() is dropped during the sleep).
C4_BackoffBeforeRetry ==
    [][/\ (nOther' # nOther => (pc' = "sleep" /\ slept' = 0))
       /\ (pc = "sleep" => (Consumed' = Consumed /\ ret' = ret))
       /\ ((pc = "sleep" /\ pc' # "sleep")
             => \/ (pc' = "incoming" /\ slept >= BackoffDelayMs
                    /\ sleeps' = sleeps + 1)
                \/ (pc' = "cancelled" /\ sleeps' = sleeps))]_vars

\* C4 witness: a non-transient error was consumed, its backoff sleep is over
\* and the loop is waiting for the next connection.
C4_Witness == nOther >= 1 /\ sleeps = nOther /\ pc = "incoming"

\* C5: a configure() that succeeds on a listener that already holds an
\* acceptor is a no-op: it keeps the stored acceptor, builds none and opens no
\* file.
C5_ConfigureIdempotent ==
    [][(nBinds' # nBinds /\ acceptor # 0 /\ cfgRet' = "Ok")
         => (acceptor' = acceptor /\ built' = built /\ reads' = reads)]_vars

\* C6: after a bind() that failed in configure(), the listener does not reach
\* the accept loop: accept() is never waiting for or sleeping between
\* connections.
C6_ConfigFailureNeverAccepts == bindRet = "Err_configure" => pc = "idle"

\* C7: after a bind() that failed in connect(), the connection is still
\* Addrs, no server is stored, and the listener is not accepting: no accept
\* loop runs, no connection was accepted and no handler spawned.
C7_BindFailureNeverAccepts ==
    bindRet = "Err_connect"
      => (connection = "Addrs" /\ ~server /\ pc = "idle"
          /\ nOk = 0 /\ nSpawned = 0)

\* C7 witness: bind() failed in connect() with an acceptor already built, and
\* a following accept() returned its error at once.
C7_Witness ==
    bindRet = "Err_connect" /\ acceptor # 0 /\ ret = "Err_listener"

\* The states a handler ends in after a handshake or HTTP codec failure
HandlerFailed == {"tls_error", "h1_error"}

\* A step in which handler c fails changes nothing but that handler.
FailureIsolated(c) ==
    (tasks'[c].pc \in HandlerFailed /\ tasks[c].pc \notin HandlerFailed)
      => (/\ \A d \in Conns \ {c} : tasks'[d] = tasks[d]
          /\ UNCHANGED listener_vars)

\* A handler that failed has ended: it takes no further step.
FailedHasEnded(c) ==
    tasks[c].pc \in HandlerFailed => tasks'[c] = tasks[c]

\* C8 as stated: a handler that fails, in the handshake or in the HTTP codec,
\* changes nothing but itself, has ended, and has never invoked the
\* dispatcher for its connection.
C8_FailedNeverDispatched ==
    [][\A c \in Conns :
         /\ FailureIsolated(c)
         /\ FailedHasEnded(c)
         /\ (tasks'[c].pc \in HandlerFailed => tasks'[c].dispatched = 0)]_vars

\* C8 amended: a handler that fails changes nothing but itself and has ended,
\* so the dispatcher is not invoked for its connection afterwards; after a
\* handshake failure it was never invoked for that connection.
C8_HandlersIsolated ==
    [][\A c \in Conns :
         /\ FailureIsolated(c)
         /\ FailedHasEnded(c)
         /\ (tasks'[c].handshake = "Err"
               => (tasks'[c].pc = "tls_error" /\ tasks'[c].dispatched = 0))]_vars

\* C8 witness: connection 1 failed its handshake, connection 2 failed in the
\* HTTP codec after a request was dispatched, and the accept loop still runs.
C8_Witness ==
    /\ tasks[1].pc = "tls_error"
    /\ tasks[2].pc = "h1_error"
    /\ tasks[2].dispatched >= 1
    /\ pc = "incoming"

\* C9: the step that spawns a handler leaves the accept loop waiting for the
\* next connection, with the new task at its start (no handshake done in the
\* loop's step) and every other task untouched; and whatever the tasks are
\* doing, a loop waiting for a connection can accept the next one.
C9_LoopNeverWaitsOnHandler ==
    /\ [][nSpawned' # nSpawned
            => (/\ pc' = "incoming"
                /\ tasks'[nOk'].pc = "start"
                /\ tasks'[nOk'].handshake = "none"
                /\ \A d \in Conns \ {nOk'} : tasks'[d] = tasks[d])]_vars
    /\ []((pc = "incoming" /\ Consumed < MaxAccepts /\ nOk < MaxConn)
            => ENABLED AcceptOk)

\* C9 witness: connection 1's handler is still in its handshake while
\* connection 2, accepted later, was handled to the end.
C9_Witness ==
    /\ tasks[1].pc = "handshake"
    /\ tasks[2].pc = "closed"
    /\ tasks[2].dispatched >= 1

\* C10: a configuration that is an already constructed acceptor never fails
\* to resolve, so its bind() never fails in configure(); only a configuration
\* that was never supplied is refused.
C10_AcceptorConfigResolves ==
    /\ config = "Acceptor" => (cfgRet \in {"none", "Ok"} /\ bindRet # "Err_configure")
    /\ cfgRet = "Err_InvalidInput" => config = "Unconfigured"

\* C11: once the connection is Connected it stays Connected, and no further
\* socket bind is attempted: a later bind() goes through connect() without
\* calling TcpListener::bind again.
C11_BoundOnceNeverBack ==
    [][connection = "Connected"
         => (connection' = "Connected" /\ bindAttempts' = bindAttempts)]_vars

\* C11 witness: a second bind() succeeded on a listener that was already
\* Connected, with a single socket bind made in all.
C11_Witness ==
    connection = "Connected" /\ nBinds = 2 /\ bindRet = "Ok" /\ bindAttempts = 1

\* The connections whose handler task was spawned
Spawned == {c \in Conns : tasks[c].pc \notin {"absent", "dropped"}}

\* C12: an acceptor the listener holds is never replaced, and all handler
\* tasks spawned by the listener were given the same acceptor.
C12_AcceptorNeverReplaced ==
    /\ [][acceptor # 0 => acceptor' = acceptor]_vars
    /\ [](\A c, d \in Spawned : tasks[c].acceptor = tasks[d].acceptor)

\* C13: a request is passed to the dispatcher only in a handler whose TLS
\* handshake succeeded and whose addresses were captured, in the step that
\* first tries to set the scheme; and every attempt to set the scheme, failed
\* or not, goes on to the dispatch.
C13_DispatchAfterHandshakeAndScheme ==
    [][\A c \in Conns :
         /\ (tasks'[c].dispatched # tasks[c].dispatched
               => (/\ tasks[c].handshake = "Ok"
                   /\ tasks[c].addrs
                   /\ tasks'[c].scheme \in {"Ok", "Err"}
                   /\ tasks'[c].dispatched = tasks[c].dispatched + 1))
         /\ ((tasks[c].scheme = "none" /\ tasks'[c].scheme # "none")
               => tasks'[c].dispatched = tasks[c].dispatched + 1)]_vars

\* C13 witness: a request is being answered by the dispatcher although
\* set_scheme failed for it.
C13_Witness ==
    /\ tasks[1].pc = "responding"
    /\ tasks[1].scheme = "Err"
    /\ tasks[1].dispatched = 1
    /\ tasks[1].handshake = "Ok"

\* C14 as stated: the addresses are snapshotted right after the accept, before
\* the socket options are applied and before the handler is spawned, so every
\* accepted connection has them.
C14_SnapshotBeforeSpawn ==
    \A c \in Conns : tasks[c].pc # "absent" => tasks[c].addrs

\* C14 amended: the handler is spawned in the accept step, only when no socket
\* option failed, without the addresses; the spawned task captures them in its
\* first step, so they are there before its handshake gives anything.
C14_SnapshotInTask ==
    /\ [](\A c \in Conns :
            tasks[c].addrs <=> tasks[c].pc \notin {"absent", "dropped", "start"})
    /\ [][nSpawned' # nSpawned
            => (/\ ret' = ret
                /\ nOk' = nOk + 1
                /\ tasks'[nOk'].pc = "start"
                /\ ~tasks'[nOk'].addrs)]_vars
    /\ [][\A c \in Conns :
            tasks'[c].handshake # tasks[c].handshake => tasks[c].addrs]_vars

\* C14 witness: with both socket options configured, the handler of
\* connection 1 is spawned and has not captured the addresses yet.
C14_Witness ==
    /\ tcp_nodelay = "Some"
    /\ tcp_ttl = "Some"
    /\ tasks[1].pc = "start"
    /\ ~tasks[1].addrs

\* C15 as stated: an accept() called while the connection is Addrs binds the
\* socket and enters the accept loop.
C15_AcceptBindsLazily ==
    [][(connection = "Addrs" /\ pc = "idle" /\ ret' # ret)
         => (connection' = "Connected" /\ pc' = "incoming")]_vars

\* C15 amended: the connection changes only in a bind() call, to Connected,
\* with one socket bind; an accept() called while it is Addrs returns the
\* "accept - listener" error at once and binds nothing.
C15_BindNotAcceptConnects ==
    /\ [][connection' # connection
            => (/\ nBinds' = nBinds + 1
                /\ connection' = "Connected"
                /\ bindAttempts' = bindAttempts + 1)]_vars
    /\ [][(connection = "Addrs" /\ ret' # ret)
            => (/\ ret' = "Err_listener"
                /\ connection' = "Addrs"
                /\ pc' = "idle"
                /\ bindAttempts' = bindAttempts)]_vars

\* C15 witness: accept() failed on the unbound listener, and a later bind()
\* bound the socket.
C15_Witness ==
    connection = "Connected" /\ bindAttempts = 1 /\ ret = "Err_listener"

\* C16: at every point the handler tasks spawned are as many as the Ok accept
\* results consumed.
C16_OneTaskPerAccept == nSpawned = nOk

\* C17: once the task running accept() is cancelled, nothing of the listener
\* changes any more (no connection is accepted); the cancelling step leaves
\* the handler tasks as they are; and every handler that has not ended can
\* still take its next step.
C17_CancelSparesHandlers ==
    /\ [][pc = "cancelled"
            => (pc' = "cancelled" /\ UNCHANGED listener_vars)]_vars
    /\ [][(pc # "cancelled" /\ pc' = "cancelled") => tasks' = tasks]_vars
    /\ [](pc = "cancelled"
            => \A c \in Conns :
                 /\ tasks[c].pc = "start" => ENABLED HStart(c)
                 /\ tasks[c].pc = "handshake" => ENABLED HHandshake(c)
                 /\ tasks[c].pc = "h1" => ENABLED HCodecEnd(c)
                 /\ tasks[c].pc = "responding" => ENABLED HResponse(c)
                 /\ tasks[c].pc # "aborted")

\* C17 witness: accept() was cancelled while one handler is answering a
\* request and another has not started to run.
C17_Witness ==
    /\ pc = "cancelled"
    /\ tasks[1].pc = "responding"
    /\ tasks[2].pc = "start"

\* The errors accept() returns before its loop
EntryErrs == {"Err_listener", "Err_acceptor", "Err_server"}

\* C18: an accept() called while the bound socket, the acceptor or the server
\* is missing returns one of its entry errors in that same step and changes
\* nothing else; and a listener without a server is never in the accept loop
\* and has accepted and spawned nothing.
C18_AcceptWithoutBindFails ==
    /\ [][(pc = "idle" /\ ret' # ret
           /\ (connection = "Addrs" \/ acceptor = 0 \/ ~server))
            => (/\ ret' \in EntryErrs
                /\ pc' = "idle"
                /\ UNCHANGED << connection, config, acceptor, server,
                                tcp_nodelay, tcp_ttl, bindRet, cfgRet, nBinds,
                                reads, built, bindAttempts, nTransient, nOther,
                                nOk, sleeps, slept, nSpawned, tasks >>)]_vars
    /\ [](~server => (pc = "idle" /\ nOk = 0 /\ nSpawned = 0))

\* C18 witness: accept() on a listener that was constructed with a bound
\* socket but holds no acceptor returned the "accept - acceptor" error.
C18_Witness ==
    ret = "Err_acceptor" /\ connection = "Connected" /\ ~server /\ pc = "idle"

\* C19: a listener that holds a server holds an acceptor and is Connected.
C19_ServerImpliesReady ==
    server => (acceptor # 0 /\ connection = "Connected")

\* C19 witness: the server is still held after a later bind() failed in
\* configure().
C19_Witness == server /\ nBinds = 2 /\ bindRet = "Err_configure"

====
